---- MODULE Spec2Model ----
(***************************************************************************)
(* Verification model of the Linera cryptographic core:                    *)
(*   linera-base/src/crypto/signer.rs     InMemSigner keyring              *)
(*   linera-base/src/crypto/secp256k1.rs  Secp256k1Signature               *)
(*   linera-chain/src/block.rs            ConfirmedBlock / ValidatedBlock  *)
(*                                                                         *)
(* SpecSigner is the keyring state machine, one call after another (PRNG,  *)
(* key map, persistence).  SpecLock is the same keyring called by          *)
(* concurrent threads through the RwLock.  SpecCrypto applies the pure     *)
(* signature and hash functions to inputs drawn from bounded sets.         *)
(***************************************************************************)
EXTENDS Integers, Sequences, FiniteSets, TLC

VARIABLES
    inner,      \* InMemSignerInner behind the Arc<RwLock<..>>
    lock,       \* the RwLock: number of read guards, write guard held
    pc,         \* per thread: the call it is in ("idle" when in none)
    ret,        \* the value returned by the call that completed last
    stored,     \* the serialized signer last written by serialize
    generated,  \* history: public keys returned by generate_new, in order
    loads,      \* history: number of deserializations so far
    call        \* SpecCrypto: the pure call applied last, with its result

vars == <<inner, lock, pc, ret, stored, generated, loads, call>>

(***************************************************************************)
(* Bounds.                                                                 *)
(***************************************************************************)
MaxSeed == 1        \* seeds Some(1)..Some(MaxSeed), and None
MaxKeys == 2        \* generate_new calls in one signer's history
MaxEntropy == 2     \* distinct outcomes of one OsRng draw
MaxLoads == 1       \* deserializations in one behaviour
MaxBytesLen == 1    \* length of a value's serialized field bytes
MaxVotes == 2       \* pairs in one verify_batch call

\* A Secp256k1 secret key is 32 bytes: four 64-bit words of the generator.
SecretKeyWords == 4

Threads == {"t1", "t2"}

(***************************************************************************)
(* Option<T>: None is the empty tuple, Some(x) the one-element tuple.      *)
(***************************************************************************)
None == <<>>
Some(x) == <<x>>
IsSome(o) == Len(o) = 1
Unwrap(o) == o[1]

(***************************************************************************)
(* Keys, owners, digests and the ECDSA primitive.  The curve operations    *)
(* are ideal: a signature verifies exactly for the digest it was made      *)
(* over and the public key of the secret that made it.                     *)
(***************************************************************************)
PublicKey(secret) == [public_of |-> secret]

OwnerFrom(public) == [owner_of |-> public]

EcdsaSign(digest, secret) == [digest |-> digest, signer |-> secret]

EcdsaVerify(digest, signature, author) ==
    /\ signature.digest = digest
    /\ author = PublicKey(signature.signer)

(***************************************************************************)
(* The pseudorandom generator.  A seeded generator is a stream identified  *)
(* by its seed and read position (in 64-bit words); the words read at      *)
(* distinct positions or from distinct seeds are distinct.  An unseeded    *)
(* generator is the operating system's: each draw is any entropy value.    *)
(***************************************************************************)
Seeds == {None} \cup {Some(s) : s \in 1..MaxSeed}

Entropy == 1..MaxEntropy

PrngFrom(prng_seed) == [seed |-> prng_seed, pos |-> 0]

NextU64(prng) ==
    IF IsSome(prng.seed) THEN [prng EXCEPT !.pos = @ + 1] ELSE prng

\* Secp256k1KeyPair::generate_from: the secret is the next 32 bytes.
GenerateFrom(prng, entropy) ==
    IF IsSome(prng.seed)
    THEN [secret |-> [seed |-> prng.seed, at |-> prng.pos],
          prng |-> [prng EXCEPT !.pos = @ + SecretKeyWords]]
    ELSE [secret |-> [seed |-> None, at |-> entropy],
          prng |-> prng]

RECURSIVE Replay(_, _)
Replay(prng, n) == IF n = 0 THEN prng ELSE Replay(NextU64(prng), n - 1)

RngStateNew(prng_seed, keys_generated) ==
    [prng |-> Replay(PrngFrom(prng_seed), keys_generated),
     initial_prng_seed |-> prng_seed,
     keys_generated |-> keys_generated]

InMemSignerInnerNew(prng_seed) ==
    [keys |-> <<>>, rng_state |-> RngStateNew(prng_seed, 0)]

(***************************************************************************)
(* Signable values and the canonical hash.  A value is its declared type   *)
(* name and its serialized field bytes; the canonical hash is the digest   *)
(* of the type name, a separator and the bytes.  The digest function is    *)
(* ideal (collision free): a digest is identified by what it was made of.  *)
(***************************************************************************)
Bytes == 0..1

ByteStrings == UNION {[1..n -> Bytes] : n \in 0..MaxBytesLen}

TestString(bytes) == [type_name |-> "TestString", bytes |-> bytes]

Foo(bytes) == [type_name |-> "Foo", bytes |-> bytes]

ValidatedBlockNew(block) == [type_name |-> "ValidatedBlock", bytes |-> block]

ConfirmedBlockNew(block) == [type_name |-> "ConfirmedBlock", bytes |-> block]

Values ==
    UNION {{TestString(b), Foo(b), ValidatedBlockNew(b), ConfirmedBlockNew(b)} :
           b \in ByteStrings}

\* Mutant: a block wrapper is named after the block it wraps.
TypeNameOfInner(value) ==
    IF value.type_name \in {"ValidatedBlock", "ConfirmedBlock"}
    THEN "Block"
    ELSE value.type_name

TypeName(value) == value.type_name

CryptoHashNew(value) == [hash |-> <<TypeName(value), "::">> \o value.bytes]

(***************************************************************************)
(* InMemSigner: the handlers' bodies, as functions of the keyring.         *)
(***************************************************************************)
\* Mutant: the inserted entry replaces the map.
BTreeInsertAlone(keys, owner, secret) == [o \in {owner} |-> secret]

BTreeInsert(keys, owner, secret) ==
    [o \in DOMAIN keys \cup {owner} |-> IF o = owner THEN secret ELSE keys[o]]

\* u64::checked_add; the counters of the model stay far below 2^64.
CheckedAdd(a, b) == Some(a + b)

\* InMemSigner::generate_new, between taking and dropping the write guard.
\* The sum of checked_add is unwrapped by expect and then dropped.
GenerateNew(signer, entropy) ==
    LET drawn == GenerateFrom(signer.rng_state.prng, entropy)
        counted == CheckedAdd(signer.rng_state.keys_generated, 1)
        public == PublicKey(drawn.secret)
        owner == OwnerFrom(public)
    IN  [panic |-> ~IsSome(counted),
         inner |-> [keys |-> BTreeInsert(signer.keys, owner, drawn.secret),
                    rng_state |-> [signer.rng_state EXCEPT !.prng = drawn.prng]],
         public |-> public]

SignPrehash(secret, value) == EcdsaSign(value, secret)

\* Mutant: the lookup is unwrapped; an unknown owner is a fault.
SignUnwrapped(signer, owner, value) ==
    IF owner \in DOMAIN signer.keys
    THEN Some(SignPrehash(signer.keys[owner], value))
    ELSE Some("panic")

Sign(signer, owner, value) ==
    IF owner \in DOMAIN signer.keys
    THEN Some(SignPrehash(signer.keys[owner], value))
    ELSE None

\* Mutant: the public key of some key of the keyring, whoever is asked for.
GetPublicOfAny(signer, owner) ==
    IF DOMAIN signer.keys = {}
    THEN None
    ELSE Some(PublicKey(signer.keys[CHOOSE known \in DOMAIN signer.keys : TRUE]))

GetPublic(signer, owner) ==
    IF owner \in DOMAIN signer.keys
    THEN Some(PublicKey(signer.keys[owner]))
    ELSE None

ContainsKey(signer, owner) == owner \in DOMAIN signer.keys

(***************************************************************************)
(* Persistence.  The keys are written as a vector of (owner, JSON bytes    *)
(* of the secret) in the map's order, with the seed and the counter.       *)
(***************************************************************************)
OwnerKey(owner) ==
    LET secret == owner.owner_of.public_of
    IN  <<Len(secret.seed), IF IsSome(secret.seed) THEN Unwrap(secret.seed) ELSE 0,
          secret.at>>

OwnerLess(a, b) ==
    LET x == OwnerKey(a)
        y == OwnerKey(b)
    IN  \/ x[1] < y[1]
        \/ x[1] = y[1] /\ x[2] < y[2]
        \/ x[1] = y[1] /\ x[2] = y[2] /\ x[3] < y[3]

RECURSIVE InOrder(_)
InOrder(owners) ==
    IF owners = {} THEN <<>>
    ELSE LET first == CHOOSE o \in owners : \A p \in owners \ {o} : OwnerLess(o, p)
         IN  <<first>> \o InOrder(owners \ {first})

ToVec(secret) == <<"secret", secret.seed, secret.at>>

FromSlice(bytes) == [seed |-> bytes[2], at |-> bytes[3]]

KeysVec(signer) ==
    LET order == InOrder(DOMAIN signer.keys)
    IN  [i \in 1..Len(order) |-> <<order[i], ToVec(signer.keys[order[i]])>>]

Serialize(signer) ==
    [keys |-> KeysVec(signer),
     prng_seed |-> signer.rng_state.initial_prng_seed,
     keys_generated |-> signer.rng_state.keys_generated]

RECURSIVE BTreeFromIter(_)
BTreeFromIter(pairs) ==
    IF pairs = <<>> THEN <<>>
    ELSE BTreeInsert(BTreeFromIter(SubSeq(pairs, 1, Len(pairs) - 1)),
                     pairs[Len(pairs)][1], pairs[Len(pairs)][2])

Deserialize(ser) ==
    [keys |-> BTreeFromIter([i \in 1..Len(ser.keys) |->
                                <<ser.keys[i][1], FromSlice(ser.keys[i][2])>>]),
     rng_state |-> RngStateNew(ser.prng_seed, ser.keys_generated)]

(***************************************************************************)
(* The RwLock and the untouched state of each specification.               *)
(***************************************************************************)
LockNew == [readers |-> 0, writer |-> FALSE, poisoned |-> FALSE]

\* Mutant: a read guard is granted while a write guard is held.
CanReadBesideWriter(l) == ~l.poisoned

\* RwLock::read: granted unless a write guard is held.
CanRead(l) == ~l.writer /\ ~l.poisoned

\* RwLock::write: granted when no guard at all is held.
CanWrite(l) == ~l.writer /\ l.readers = 0 /\ ~l.poisoned

NoCall == [name |-> "none"]

NoReturn == [op |-> "none"]

(***************************************************************************)
(* SpecSigner: the calls on one InMemSigner, one after another.  Each      *)
(* action is a whole call: taking the guard, the body, dropping the guard. *)
(***************************************************************************)
ProbeSecrets ==
    {[seed |-> Some(s), at |-> k * SecretKeyWords] :
        s \in 1..MaxSeed, k \in 0..(MaxKeys - 1)}
    \cup {[seed |-> None, at |-> e] : e \in Entropy}

ProbeOwners == {OwnerFrom(PublicKey(secret)) : secret \in ProbeSecrets}

SignDigests == {CryptoHashNew(TestString(<<>>)), CryptoHashNew(Foo(<<>>))}

InitSigner ==
    /\ \E seed \in Seeds : inner = InMemSignerInnerNew(seed)
    /\ lock = LockNew
    /\ pc = [t \in Threads |-> "idle"]
    /\ ret = NoReturn
    /\ stored = None
    /\ generated = <<>>
    /\ loads = 0
    /\ call = NoCall

SignCall ==
    /\ CanRead(lock)
    /\ \E owner \in ProbeOwners, value \in SignDigests :
        ret' = [op |-> "sign", owner |-> owner, value |-> value,
                result |-> Sign(inner, owner, value)]
    /\ UNCHANGED <<inner, lock, pc, stored, generated, loads, call>>

GetPublicCall ==
    /\ CanRead(lock)
    /\ \E owner \in ProbeOwners :
        ret' = [op |-> "get_public", owner |-> owner,
                result |-> GetPublic(inner, owner)]
    /\ UNCHANGED <<inner, lock, pc, stored, generated, loads, call>>

ContainsKeyCall ==
    /\ CanRead(lock)
    /\ \E owner \in ProbeOwners :
        ret' = [op |-> "contains_key", owner |-> owner,
                result |-> ContainsKey(inner, owner)]
    /\ UNCHANGED <<inner, lock, pc, stored, generated, loads, call>>

\* The written bytes are kept, with the keys generated up to then as history.
SerializeCall ==
    /\ CanRead(lock)
    /\ ret' = [op |-> "serialize", result |-> Serialize(inner)]
    /\ stored' = Some([ser |-> Serialize(inner), history |-> generated])
    /\ UNCHANGED <<inner, lock, pc, generated, loads, call>>

GenerateNewCall ==
    /\ CanWrite(lock)
    /\ Len(generated) < MaxKeys
    /\ \E entropy \in Entropy :
        LET done == GenerateNew(inner, entropy)
        IN  IF done.panic
            THEN /\ lock' = [lock EXCEPT !.poisoned = TRUE]
                 /\ UNCHANGED <<inner, ret, generated>>
            ELSE /\ inner' = done.inner
                 /\ ret' = [op |-> "generate_new", result |-> done.public]
                 /\ generated' = Append(generated, done.public)
                 /\ UNCHANGED lock
    /\ UNCHANGED <<pc, stored, loads, call>>

\* InMemSigner::deserialize of the bytes written last: a new signer, with a
\* new lock, that replaces the one in use.
DeserializeStored ==
    /\ IsSome(stored)
    /\ loads < MaxLoads
    /\ inner' = Deserialize(Unwrap(stored).ser)
    /\ lock' = LockNew
    /\ generated' = Unwrap(stored).history
    /\ loads' = loads + 1
    /\ ret' = [op |-> "deserialize"]
    /\ UNCHANGED <<pc, stored, call>>

NextSigner ==
    \/ SignCall
    \/ GetPublicCall
    \/ ContainsKeyCall
    \/ SerializeCall
    \/ GenerateNewCall
    \/ DeserializeStored

SpecSigner == InitSigner /\ [][NextSigner]_vars

(***************************************************************************)
(* SpecLock: threads calling one InMemSigner through its clones.  A call   *)
(* is two steps: taking the guard of the RwLock, then the body together    *)
(* with dropping the guard.                                                *)
(***************************************************************************)
ReadCalls == {"sign", "get_public", "contains_key", "serialize"}

ReadBegin(t) ==
    /\ pc[t] = "idle"
    /\ CanRead(lock)
    /\ lock' = [lock EXCEPT !.readers = @ + 1]
    /\ \E op \in ReadCalls : pc' = [pc EXCEPT ![t] = op]
    /\ UNCHANGED <<inner, ret, stored, generated, loads, call>>

ReadEnd(t) ==
    /\ pc[t] \in ReadCalls
    /\ lock' = [lock EXCEPT !.readers = @ - 1]
    /\ pc' = [pc EXCEPT ![t] = "idle"]
    /\ UNCHANGED <<inner, ret, stored, generated, loads, call>>

GenerateNewBegin(t) ==
    /\ pc[t] = "idle"
    /\ Len(generated) < MaxKeys
    /\ CanWrite(lock)
    /\ lock' = [lock EXCEPT !.writer = TRUE]
    /\ pc' = [pc EXCEPT ![t] = "generate_new"]
    /\ UNCHANGED <<inner, ret, stored, generated, loads, call>>

GenerateNewEnd(t) ==
    /\ pc[t] = "generate_new"
    /\ \E entropy \in Entropy :
        LET done == GenerateNew(inner, entropy)
        IN  IF done.panic
            THEN /\ lock' = [lock EXCEPT !.writer = FALSE, !.poisoned = TRUE]
                 /\ pc' = [pc EXCEPT ![t] = "panicked"]
                 /\ UNCHANGED <<inner, generated>>
            ELSE /\ inner' = done.inner
                 /\ generated' = Append(generated, done.public)
                 /\ lock' = [lock EXCEPT !.writer = FALSE]
                 /\ pc' = [pc EXCEPT ![t] = "idle"]
    /\ UNCHANGED <<ret, stored, loads, call>>

NextLock ==
    \/ \E t \in Threads : ReadBegin(t)
    \/ \E t \in Threads : ReadEnd(t)
    \/ \E t \in Threads : GenerateNewBegin(t)
    \/ \E t \in Threads : GenerateNewEnd(t)

SpecLock == InitSigner /\ [][NextLock]_vars

(***************************************************************************)
(* Claims about the keyring.                                               *)
(***************************************************************************)
\* The public key that the n-th generate_new call returns on a signer
\* created with the seed and never serialized.
RECURSIVE DirectFrom(_, _)
DirectFrom(signer, n) ==
    LET done == GenerateNew(signer, CHOOSE e \in Entropy : TRUE)
    IN  IF n = 1 THEN done.public ELSE DirectFrom(done.inner, n - 1)

DirectKey(prng_seed, n) == DirectFrom(InMemSignerInnerNew(prng_seed), n)

\* C1: on a signer created with a seed, every key returned by generate_new,
\* before and after any serialize/deserialize round trip, is the key that an
\* uninterrupted signer created with the same seed returns at that position.
KeyringDeterminism ==
    IsSome(inner.rng_state.initial_prng_seed) =>
        \A i \in 1..Len(generated) :
            generated[i] = DirectKey(inner.rng_state.initial_prng_seed, i)

\* C2: keys_generated equals the number of generate_new calls made on the
\* signer, and so does the keys_generated written by serialize.
CounterCountsGenerated ==
    /\ inner.rng_state.keys_generated = Len(generated)
    /\ IsSome(stored) =>
        Unwrap(stored).ser.keys_generated = Len(Unwrap(stored).history)

\* C7: a sign, get_public or contains_key call for an owner that is not in
\* the keyring returns None, None and false, and leaves the keyring as it was.
UnknownOwnerIsEmpty ==
    [][(/\ ret'.op \in {"sign", "get_public", "contains_key"}
        /\ ret'.owner \notin DOMAIN inner.keys)
       => /\ ret'.op = "sign" => ret'.result = None
          /\ ret'.op = "get_public" => ret'.result = None
          /\ ret'.op = "contains_key" => ret'.result = FALSE
          /\ inner' = inner]_vars

UnknownOwnerAsked ==
    /\ ret.op = "sign"
    /\ ret.owner \notin DOMAIN inner.keys
    /\ ret.result = None
    /\ DOMAIN inner.keys # {}

\* C8: a write guard excludes every other guard, so while a thread is inside
\* generate_new no thread is inside sign, get_public, contains_key or
\* serialize; read guards are shared and counted.
ReaderWriterExclusion ==
    /\ lock.writer => lock.readers = 0
    /\ lock.writer <=> \E t \in Threads : pc[t] = "generate_new"
    /\ Cardinality({t \in Threads : pc[t] = "generate_new"}) <= 1
    /\ lock.readers = Cardinality({t \in Threads : pc[t] \in ReadCalls})
    /\ (\E t \in Threads : pc[t] = "generate_new")
        => \A u \in Threads : pc[u] \notin ReadCalls

ReadersShareKeyring ==
    /\ lock.readers = Cardinality(Threads)
    /\ \A t \in Threads : pc[t] \in ReadCalls
    /\ Len(generated) >= 1

\* C9: a call on a signer never removes an owner from its keyring nor
\* changes the secret kept for it.
KeyringOnlyGrows ==
    [][loads' = loads =>
        \A owner \in DOMAIN inner.keys :
            /\ owner \in DOMAIN inner'.keys
            /\ inner'.keys[owner] = inner.keys[owner]]_vars

KeyringHasGrown ==
    /\ Cardinality(DOMAIN inner.keys) >= 2
    /\ ret.op = "contains_key"
    /\ ret.result = TRUE

(***************************************************************************)
(* Secp256k1Signature and ConfirmedBlock::with_hash_checked.               *)
(***************************************************************************)
OkOf(x) == [ok |-> TRUE, val |-> x]

ErrOf(e) == [ok |-> FALSE, val |-> e]

InvalidSignature(error, type_name) ==
    [kind |-> "InvalidSignature", error |-> error, type_name |-> type_name]

\* secp256k1::Error::IncorrectSignature, rendered by to_string.
IncorrectSignature == "signature failed verification"

SignatureNew(value, secret) == EcdsaSign(CryptoHashNew(value), secret)

\* Mutant: the signature is verified against its signer's key, not the author's.
CheckAnyAuthor(signature, value, author) ==
    IF signature.digest = CryptoHashNew(value)
    THEN OkOf(<<>>)
    ELSE ErrOf(InvalidSignature(IncorrectSignature, TypeName(value)))

Check(signature, value, author) ==
    IF EcdsaVerify(CryptoHashNew(value), signature, author)
    THEN OkOf(<<>>)
    ELSE ErrOf(InvalidSignature(IncorrectSignature, TypeName(value)))

\* The loop of verify_batch from the i-th vote on; verified counts the
\* votes handed to verify_ecdsa.
RECURSIVE VerifyBatchFrom(_, _, _, _)
VerifyBatchFrom(message, type_name, votes, i) ==
    IF i > Len(votes)
    THEN [result |-> OkOf(<<>>), verified |-> Len(votes)]
    ELSE IF EcdsaVerify(message, votes[i][2], votes[i][1])
         THEN VerifyBatchFrom(message, type_name, votes, i + 1)
         ELSE [result |-> ErrOf(InvalidSignature(IncorrectSignature, type_name)),
               verified |-> i]

\* Mutant: only the first vote is verified.
VerifyBatchFirstOnly(value, votes) ==
    VerifyBatchFrom(CryptoHashNew(value), TypeName(value),
                    SubSeq(votes, 1, IF Len(votes) = 0 THEN 0 ELSE 1), 1)

\* Mutant: every vote is verified before a failure is reported.
VerifyBatchNoShortCircuit(value, votes) ==
    [result |-> VerifyBatchFrom(CryptoHashNew(value), TypeName(value), votes, 1).result,
     verified |-> Len(votes)]

VerifyBatch(value, votes) ==
    VerifyBatchFrom(CryptoHashNew(value), TypeName(value), votes, 1)

HashedUncheckedNew(value, hash) == [value |-> value, hash |-> hash]

WithHash(value) == HashedUncheckedNew(value, CryptoHashNew(value))

CertificateValueHashMismatch(expected, actual) ==
    [kind |-> "CertificateValueHashMismatch", expected |-> expected,
     actual |-> actual]

\* Mutant: the two hashes of the error are swapped.
WithHashCheckedSwapped(value, hash) ==
    LET hashed_certificate_value == WithHash(value)
    IN  IF hashed_certificate_value.hash = hash
        THEN OkOf(hashed_certificate_value)
        ELSE ErrOf(CertificateValueHashMismatch(hashed_certificate_value.hash, hash))

WithHashChecked(value, hash) ==
    LET hashed_certificate_value == WithHash(value)
    IN  IF hashed_certificate_value.hash = hash
        THEN OkOf(hashed_certificate_value)
        ELSE ErrOf(CertificateValueHashMismatch(hash, hashed_certificate_value.hash))

(***************************************************************************)
(* SpecCrypto: one call of one pure function, on inputs drawn from the     *)
(* bounded sets; the state keeps the call and its result.                  *)
(***************************************************************************)
\* Key pairs of Secp256k1KeyPair::generate, drawn from the system generator.
KeyPairSecrets == {GenerateFrom(PrngFrom(None), e).secret : e \in Entropy}

Authors == {PublicKey(secret) : secret \in KeyPairSecrets}

Hashes == {CryptoHashNew(value) : value \in Values}

\* The value of the same bytes under the other declared type.
Retyped(value) ==
    CASE value.type_name = "TestString" -> Foo(value.bytes)
      [] value.type_name = "Foo" -> TestString(value.bytes)
      [] value.type_name = "ValidatedBlock" -> ConfirmedBlockNew(value.bytes)
      [] value.type_name = "ConfirmedBlock" -> ValidatedBlockNew(value.bytes)

\* The votes a batch over the value can hold: any author with a signature
\* by any key over the value or over its retyped twin.
VotesOver(value) ==
    {<<author, SignatureNew(signed, secret)>> :
        author \in Authors, signed \in {value, Retyped(value)},
        secret \in KeyPairSecrets}

BatchesOver(value) == UNION {[1..n -> VotesOver(value)] : n \in 0..MaxVotes}

InitCrypto ==
    /\ call = NoCall
    /\ inner = InMemSignerInnerNew(None)
    /\ lock = LockNew
    /\ pc = [t \in Threads |-> "idle"]
    /\ ret = NoReturn
    /\ stored = None
    /\ generated = <<>>
    /\ loads = 0

SignatureNewCall ==
    /\ call = NoCall
    /\ \E value \in Values, secret \in KeyPairSecrets :
        call' = [name |-> "new", value |-> value, secret |-> secret,
                 result |-> SignatureNew(value, secret)]
    /\ UNCHANGED <<inner, lock, pc, ret, stored, generated, loads>>

\* A signature by the secret over the value, checked against a value and an
\* author.
CheckCall ==
    /\ call = NoCall
    /\ \E value \in Values, secret \in KeyPairSecrets, against \in Values,
          author \in Authors :
        call' = [name |-> "check", value |-> value, secret |-> secret,
                 signature |-> SignatureNew(value, secret),
                 against |-> against, author |-> author,
                 result |-> Check(SignatureNew(value, secret), against, author)]
    /\ UNCHANGED <<inner, lock, pc, ret, stored, generated, loads>>

VerifyBatchCall ==
    /\ call = NoCall
    /\ \E value \in Values :
        \E votes \in BatchesOver(value) :
            LET done == VerifyBatch(value, votes)
            IN  call' = [name |-> "verify_batch", value |-> value, votes |-> votes,
                         result |-> done.result, verified |-> done.verified]
    /\ UNCHANGED <<inner, lock, pc, ret, stored, generated, loads>>

WithHashCheckedCall ==
    /\ call = NoCall
    /\ \E block \in ByteStrings, hash \in Hashes :
        call' = [name |-> "with_hash_checked", value |-> ConfirmedBlockNew(block),
                 hash |-> hash,
                 result |-> WithHashChecked(ConfirmedBlockNew(block), hash)]
    /\ UNCHANGED <<inner, lock, pc, ret, stored, generated, loads>>

NextCrypto ==
    \/ SignatureNewCall
    \/ CheckCall
    \/ VerifyBatchCall
    \/ WithHashCheckedCall

SpecCrypto == InitCrypto /\ [][NextCrypto]_vars

(***************************************************************************)
(* Claims about signatures and checked hashes.                             *)
(***************************************************************************)
IsInvalidSignature(result) ==
    /\ ~result.ok
    /\ result.val.kind = "InvalidSignature"

\* C3: a signature by secret A over value V passes check for V and A's
\* public key, and fails with InvalidSignature for any other public key and
\* for any other value.
Authentication ==
    call.name = "check" =>
        /\ (call.against = call.value /\ call.author = PublicKey(call.secret))
            => call.result = OkOf(<<>>)
        /\ call.author # PublicKey(call.secret) => IsInvalidSignature(call.result)
        /\ call.against # call.value => IsInvalidSignature(call.result)

AuthenticationRefused ==
    /\ call.name = "check"
    /\ call.against.type_name = call.value.type_name
    /\ call.against.bytes # call.value.bytes
    /\ call.author = PublicKey(call.secret)
    /\ IsInvalidSignature(call.result)

\* C4: two values of the same bytes and different declared types have
\* different canonical hashes, and a signature over one fails check against
\* the other under the signer's own public key.
DomainSeparation ==
    (/\ call.name = "check"
     /\ call.against.bytes = call.value.bytes
     /\ call.against.type_name # call.value.type_name)
    => /\ CryptoHashNew(call.against) # CryptoHashNew(call.value)
       /\ IsInvalidSignature(call.result)

ReplayAcrossBlockKinds ==
    /\ call.name = "check"
    /\ call.value.type_name = "ValidatedBlock"
    /\ call.against = ConfirmedBlockNew(call.value.bytes)
    /\ call.author = PublicKey(call.secret)
    /\ IsInvalidSignature(call.result)

\* C5: verify_batch returns Ok exactly when check returns Ok for every pair
\* of the batch, the empty batch included.
BatchIffEveryPair ==
    call.name = "verify_batch" =>
        (call.result.ok <=>
            \A i \in 1..Len(call.votes) :
                Check(call.votes[i][2], call.value, call.votes[i][1]).ok)

BatchOfValidPairs ==
    /\ call.name = "verify_batch"
    /\ Len(call.votes) >= 2
    /\ call.votes[1] # call.votes[2]
    /\ call.result.ok

HashCheckedOrMismatch ==
    call.name = "with_hash_checked" =>
        LET actual == CryptoHashNew(call.value)
        IN  /\ call.result.ok <=> call.hash = actual
            /\ call.result.ok =>
                call.result.val = [value |-> call.value, hash |-> actual]
            /\ ~call.result.ok =>
                call.result.val = [kind |-> "CertificateValueHashMismatch",
                                   expected |-> call.hash, actual |-> actual]

HashOfOtherKindRefused ==
    /\ call.name = "with_hash_checked"
    /\ call.hash = CryptoHashNew(ValidatedBlockNew(call.value.bytes))
    /\ ~call.result.ok
    /\ call.result.val.expected # call.result.val.actual

(***************************************************************************)
(* The block model: BlockHeader, BlockBody and the queries of Block.       *)
(***************************************************************************)
MaxTxns == 3        \* transactions (incoming bundles, then operations)
MaxMsgs == 3        \* outgoing messages of one block

\* usize::MAX, at the width of the integers of the model.
UsizeMax == 2147483647

Chains == 1..2

Heights == 1..2

Recipient(chain) == [kind |-> "Recipient", to |-> chain]

Subscribers(name) == [kind |-> "Subscribers", to |-> name]

Direct == [kind |-> "Direct", name |-> 0]

Channel(name) == [kind |-> "Channel", name |-> name]

OutgoingMessage(destination, message) ==
    [destination |-> destination, message |-> message]

\* OutgoingMessage::has_destination: a direct message goes to its recipient
\* over the direct medium, a channel message over the channel of its name.
HasDestination(message, medium, recipient) ==
    \/ /\ message.destination.kind = "Recipient"
       /\ medium.kind = "Direct"
       /\ message.destination.to = recipient
    \/ /\ message.destination.kind = "Subscribers"
       /\ medium.kind = "Channel"
       /\ message.destination.to = medium.name

\* OutgoingMessage::into_posted: the message with its index in the block.
IntoPosted(message, index) == [index |-> index, message |-> message.message]

MessageId(chain_id, height, index) ==
    [chain_id |-> chain_id, height |-> height, index |-> index]

\* BlockHeader::message_id
HeaderMessageId(header, index) ==
    MessageId(header.chain_id, header.height, index)

RECURSIVE SumLenAll(_, _)
RECURSIVE SumLenTake(_, _)
\* .iter().take(n).map(Vec::len).sum()
SumLenTake(messages, n) ==
    IF n = 0 \/ messages = <<>> THEN 0
    ELSE Len(messages[1]) + SumLenTake(Tail(messages), n - 1)

\* Mutant: the messages of every transaction are summed.
SumLenAll(messages, n) ==
    IF messages = <<>> THEN 0
    ELSE Len(messages[1]) + SumLenAll(Tail(messages), n)

SumLen(messages, n) == SumLenTake(messages, n)

\* usize::checked_add
CheckedAddUsize(a, b) == IF a > UsizeMax - b THEN None ELSE Some(a + b)

\* u32::checked_add; the message counts of the model stay far below 2^32.
CheckedAddU32(a, b) == Some(a + b)

\* Mutant: the incoming bundles are not counted before the operations.
MessageIdForOperationNoBundles(block, operation_index, message_index) ==
    IF operation_index >= Len(block.body.messages)
    THEN None
    ELSE IF message_index >= Len(block.body.messages[operation_index + 1])
         THEN None
         ELSE Some(HeaderMessageId(block.header,
                   SumLen(block.body.messages, operation_index) + message_index))

MessageIdForOperation(block, operation_index, message_index) ==
    LET transaction_index ==
            CheckedAddUsize(Len(block.body.incoming_bundles), operation_index)
    IN  IF ~IsSome(transaction_index)
        THEN None
        ELSE IF Unwrap(transaction_index) >= Len(block.body.messages)
        THEN None
        ELSE IF message_index >=
                    Len(block.body.messages[Unwrap(transaction_index) + 1])
        THEN None
        ELSE LET first_message_index ==
                     SumLen(block.body.messages, Unwrap(transaction_index))
                 index == CheckedAddU32(first_message_index, message_index)
             IN  IF ~IsSome(index)
                 THEN None
                 ELSE Some(HeaderMessageId(block.header, Unwrap(index)))

RECURSIVE MessageByIndex(_, _)
\* The loop of message_by_id over the transactions' messages.
MessageByIndex(messages, index) ==
    IF messages = <<>> THEN None
    ELSE IF index < Len(messages[1])
         THEN Some(messages[1][index + 1])
         ELSE MessageByIndex(Tail(messages), index - Len(messages[1]))

MessageById(block, message_id) ==
    IF \/ block.header.chain_id # message_id.chain_id
       \/ block.header.height # message_id.height
    THEN None
    ELSE MessageByIndex(block.body.messages, message_id.index)

\* (index..).zip(txn_messages).filter(has_destination).map(into_posted)
RECURSIVE PostedFromEvery(_, _, _, _)
\* Mutant: the messages are not filtered by their destination.
PostedFromEvery(txn_messages, index, medium, recipient) ==
    IF txn_messages = <<>> THEN <<>>
    ELSE <<IntoPosted(txn_messages[1], index)>>
         \o PostedFromEvery(Tail(txn_messages), index + 1, medium, recipient)

RECURSIVE PostedFrom(_, _, _, _)
\* (index..).zip(txn_messages).filter(has_destination).map(into_posted)
PostedFrom(txn_messages, index, medium, recipient) ==
    IF txn_messages = <<>> THEN <<>>
    ELSE (IF HasDestination(txn_messages[1], medium, recipient)
          THEN <<IntoPosted(txn_messages[1], index)>>
          ELSE <<>>)
         \o PostedFrom(Tail(txn_messages), index + 1, medium, recipient)

\* The filter_map of message_bundles_for from one transaction on, index
\* being the number of messages of the transactions before it.
RECURSIVE BundlesFrom(_, _, _, _, _, _)
BundlesFrom(block, transaction_index, index, medium, recipient, certificate_hash) ==
    IF transaction_index >= Len(block.body.messages) THEN <<>>
    ELSE LET txn_messages == block.body.messages[transaction_index + 1]
             messages == PostedFrom(txn_messages, index, medium, recipient)
         IN  (IF messages # <<>>
              THEN << <<block.header.epoch,
                        [height |-> block.header.height,
                         timestamp |-> block.header.timestamp,
                         certificate_hash |-> certificate_hash,
                         transaction_index |-> transaction_index,
                         messages |-> messages]>> >>
              ELSE <<>>)
             \o BundlesFrom(block, transaction_index + 1, index + Len(txn_messages),
                            medium, recipient, certificate_hash)

\* Mutant: the first index is one.
MessageBundlesForFromOne(block, medium, recipient, certificate_hash) ==
    BundlesFrom(block, 0, 1, medium, recipient, certificate_hash)

MessageBundlesFor(block, medium, recipient, certificate_hash) ==
    BundlesFrom(block, 0, 0, medium, recipient, certificate_hash)

(***************************************************************************)
(* Blocks.  A block is built from a proposal (incoming bundles and         *)
(* operations) and its execution outcome (one slot of messages, oracle     *)
(* responses and events per transaction); each header hash is the          *)
(* canonical hash of its body section.                                     *)
(***************************************************************************)
SectionHash(name, section) ==
    CryptoHashNew([type_name |-> name, bytes |-> <<section>>])

BlockNew(proposed, outcome) ==
    [header |->
        [version |-> 1,
         chain_id |-> proposed.chain_id,
         epoch |-> proposed.epoch,
         height |-> proposed.height,
         timestamp |-> proposed.timestamp,
         state_hash |-> outcome.state_hash,
         previous_block_hash |-> proposed.previous_block_hash,
         authenticated_signer |-> proposed.authenticated_signer,
         bundles_hash |-> SectionHash("IncomingBundles", proposed.incoming_bundles),
         operations_hash |-> SectionHash("Operations", proposed.operations),
         messages_hash |-> SectionHash("Messages", outcome.messages),
         oracle_responses_hash |->
             SectionHash("OracleResponses", outcome.oracle_responses),
         events_hash |-> SectionHash("Events", outcome.events)],
     body |->
        [incoming_bundles |-> proposed.incoming_bundles,
         operations |-> proposed.operations,
         messages |-> outcome.messages,
         oracle_responses |-> outcome.oracle_responses,
         events |-> outcome.events]]

IncomingBundle(action) == [action |-> action]

UserOperation == [kind |-> "User", hashes |-> <<>>]

PublishDataBlob(blob_hash) == [kind |-> "PublishDataBlob", hashes |-> <<blob_hash>>]

PublishBytecode(contract_blob_hash, service_blob_hash) ==
    [kind |-> "PublishBytecode",
     hashes |-> <<contract_blob_hash, service_blob_hash>>]

Proposed(incoming_bundles, operations) ==
    [chain_id |-> 1, epoch |-> 0, height |-> 1, timestamp |-> 0,
     previous_block_hash |-> None, authenticated_signer |-> None,
     incoming_bundles |-> incoming_bundles, operations |-> operations]

Outcome(messages, oracle_responses) ==
    [state_hash |-> SectionHash("State", <<>>),
     messages |-> messages,
     oracle_responses |-> oracle_responses,
     events |-> [i \in 1..Len(messages) |-> <<>>]]

RECURSIVE SumTo(_, _)
\* The sum of the first n numbers of lens.
SumTo(lens, n) == IF n = 0 THEN 0 ELSE SumTo(lens, n - 1) + lens[n]

\* The numbers of messages of at most MaxTxns transactions, at most
\* MaxMsgs in all.
Lengths ==
    {lens \in UNION {[1..t -> 0..MaxMsgs] : t \in 0..MaxTxns} :
        SumTo(lens, Len(lens)) <= MaxMsgs}

Total(lens) == SumTo(lens, Len(lens))

\* The sequence flat cut into transactions of the given lengths.
Layout(lens, flat) ==
    [i \in 1..Len(lens) |-> SubSeq(flat, SumTo(lens, i - 1) + 1, SumTo(lens, i))]

\* The messages of a layout of destinations; every message carries the
\* place it was created at as its content, so that no two are equal.
MessagesTo(layout) ==
    [i \in 1..Len(layout) |->
        [j \in 1..Len(layout[i]) |-> OutgoingMessage(layout[i][j], <<i, j>>)]]

\* The block of b accepted bundles followed by user operations whose
\* transactions send messages to the given destinations.
BlockTo(layout, b) ==
    BlockNew(Proposed([i \in 1..b |-> IncomingBundle("Accept")],
                      [i \in 1..(Len(layout) - b) |-> UserOperation]),
             Outcome(MessagesTo(layout), [i \in 1..Len(layout) |-> <<>>]))

Destinations == {Recipient(c) : c \in Chains} \cup {Subscribers(1)}

\* A block told by the numbers of its messages alone.
IndexedBlock(lens, b) ==
    BlockTo(Layout(lens, [k \in 1..Total(lens) |-> Recipient(1)]), b)

Mediums == {Direct, Channel(1)}

TotalMessages(block) == SumLen(block.body.messages, Len(block.body.messages))

(***************************************************************************)
(* SpecBlock: one query of one block, drawn from the bounded sets; the     *)
(* state keeps the call and its result.                                    *)
(***************************************************************************)
MessageIdForOperationCall ==
    /\ call = NoCall
    /\ \E lens \in Lengths, operation_index \in 0..MaxTxns \cup {UsizeMax},
          message_index \in 0..MaxMsgs :
        \E b \in 0..Len(lens) :
            LET block == IndexedBlock(lens, b)
            IN  call' = [name |-> "message_id_for_operation", block |-> block,
                         operation_index |-> operation_index,
                         message_index |-> message_index,
                         result |-> MessageIdForOperation(block, operation_index,
                                                          message_index)]
    /\ UNCHANGED <<inner, lock, pc, ret, stored, generated, loads>>

MessageByIdCall ==
    /\ call = NoCall
    /\ \E lens \in Lengths, chain_id \in Chains, height \in Heights,
          index \in 0..(MaxMsgs + 1) :
        \E b \in 0..Len(lens) :
            LET block == IndexedBlock(lens, b)
                message_id == MessageId(chain_id, height, index)
            IN  call' = [name |-> "message_by_id", block |-> block,
                         message_id |-> message_id,
                         result |-> MessageById(block, message_id)]
    /\ UNCHANGED <<inner, lock, pc, ret, stored, generated, loads>>

(***************************************************************************)
(* Blobs and rejected bundles.                                             *)
(***************************************************************************)
BlobHashes == 1..2

BlobTypes == {"Data", "ContractBytecode", "ServiceBytecode"}

BlobId(hash, blob_type) == [hash |-> hash, blob_type |-> blob_type]

BlobIds == {BlobId(hash, blob_type) : hash \in BlobHashes, blob_type \in BlobTypes}

OracleBlob(blob_id) == [kind |-> "Blob", blob_id |-> <<blob_id>>]

OracleService == [kind |-> "Service", blob_id |-> <<>>]

Range(seq) == {seq[i] : i \in DOMAIN seq}

OracleBlobIds(body) ==
    UNION {{response.blob_id[1] :
               response \in {r \in Range(responses) : r.kind = "Blob"}} :
           responses \in Range(body.oracle_responses)}

\* The blob ids that one operation of published_blob_ids inserts.
OperationBlobIds(operation) ==
    (IF operation.kind = "PublishDataBlob"
     THEN {BlobId(operation.hashes[1], "Data")}
     ELSE {})
    \cup
    (IF operation.kind = "PublishBytecode"
     THEN {BlobId(operation.hashes[1], "ContractBytecode"),
           BlobId(operation.hashes[2], "ServiceBytecode")}
     ELSE {})

PublishedBlobIds(block) ==
    UNION {OperationBlobIds(operation) : operation \in Range(block.body.operations)}

\* Mutant: the published blobs are left out.
RequiredBlobIdsOfOracles(block) == OracleBlobIds(block.body)

RequiredBlobIds(block) == OracleBlobIds(block.body) \cup PublishedBlobIds(block)

RequiresBlob(block, blob_id) ==
    \/ blob_id \in OracleBlobIds(block.body)
    \/ blob_id \in PublishedBlobIds(block)

\* Mutant: the operations are not looked at.
HasOnlyRejectedBundles(block) ==
    \A i \in DOMAIN block.body.incoming_bundles :
        block.body.incoming_bundles[i].action = "Reject"

HasOnlyRejectedMessages(block) ==
    /\ block.body.operations = <<>>
    /\ \A i \in DOMAIN block.body.incoming_bundles :
          block.body.incoming_bundles[i].action = "Reject"

MessageActions == {"Accept", "Reject"}

\* A block of the given bundles and operations that sends no message.
QuietBlock(incoming_bundles, operations, oracle_responses) ==
    BlockNew(Proposed(incoming_bundles, operations),
             Outcome([i \in 1..(Len(incoming_bundles) + Len(operations)) |-> <<>>],
                     oracle_responses))

BlobOperations ==
    {UserOperation, PublishDataBlob(1), PublishDataBlob(2), PublishBytecode(1, 2)}

OracleResponses ==
    {<<>>, <<OracleService>>, <<OracleBlob(BlobId(1, "Data"))>>,
     <<OracleBlob(BlobId(2, "ContractBytecode"))>>}

\* A block of operations alone; the first transaction has the oracle
\* responses first, the others have rest.
BlobBlock(operations, first, rest) ==
    QuietBlock(<<>>, operations,
               [i \in 1..Len(operations) |-> IF i = 1 THEN first ELSE rest])

HasOnlyRejectedMessagesCall ==
    /\ call = NoCall
    /\ \E b \in 0..MaxTxns :
        \E actions \in [1..b -> MessageActions], n \in 0..(MaxTxns - b) :
            LET block == QuietBlock([i \in 1..b |-> IncomingBundle(actions[i])],
                                    [i \in 1..n |-> UserOperation],
                                    [i \in 1..(b + n) |-> <<>>])
            IN  call' = [name |-> "has_only_rejected_messages", block |-> block,
                         result |-> HasOnlyRejectedMessages(block)]
    /\ UNCHANGED <<inner, lock, pc, ret, stored, generated, loads>>

RequiredBlobIdsCall ==
    /\ call = NoCall
    /\ \E n \in 0..MaxTxns, first \in OracleResponses, rest \in OracleResponses :
        \E operations \in [1..n -> BlobOperations] :
            LET block == BlobBlock(operations, first, rest)
            IN  call' = [name |-> "required_blob_ids", block |-> block,
                         result |-> RequiredBlobIds(block)]
    /\ UNCHANGED <<inner, lock, pc, ret, stored, generated, loads>>

RequiresBlobCall ==
    /\ call = NoCall
    /\ \E n \in 0..MaxTxns, first \in OracleResponses, rest \in OracleResponses,
          blob_id \in BlobIds :
        \E operations \in [1..n -> BlobOperations] :
            LET block == BlobBlock(operations, first, rest)
            IN  call' = [name |-> "requires_blob", block |-> block,
                         blob_id |-> blob_id,
                         result |-> RequiresBlob(block, blob_id)]
    /\ UNCHANGED <<inner, lock, pc, ret, stored, generated, loads>>

\* The derived Serialize of Block: the header, then the body.
SerializeBlock(block) == <<block.header, block.body>>

\* The derived Deserialize of Block: the two fields as they are read.
DeserializeBlock(bytes) == [header |-> bytes[1], body |-> bytes[2]]

BlockNewCall ==
    /\ call = NoCall
    /\ \E lens \in Lengths :
        \E b \in 0..Len(lens) :
            LET built == IndexedBlock(lens, b)
            IN  call' = [name |-> "block_new", block |-> built, result |-> built]
    /\ UNCHANGED <<inner, lock, pc, ret, stored, generated, loads>>

\* The bytes read are any header followed by any body.
DeserializeBlockCall ==
    /\ call = NoCall
    /\ \E of_header \in Lengths, of_body \in Lengths :
        LET bytes == <<SerializeBlock(IndexedBlock(of_header, 0))[1],
                       SerializeBlock(IndexedBlock(of_body, 0))[2]>>
        IN  call' = [name |-> "deserialize_block", block |-> bytes,
                     result |-> DeserializeBlock(bytes)]
    /\ UNCHANGED <<inner, lock, pc, ret, stored, generated, loads>>

CertificateHash == SectionHash("ConfirmedBlock", <<>>)

MessageBundlesForCall ==
    /\ call = NoCall
    /\ \E lens \in Lengths, medium \in Mediums, recipient \in Chains :
        \E flat \in [1..Total(lens) -> Destinations] :
            LET block == BlockTo(Layout(lens, flat), 0)
            IN  call' = [name |-> "message_bundles_for", block |-> block,
                         medium |-> medium, recipient |-> recipient,
                         certificate_hash |-> CertificateHash,
                         result |-> MessageBundlesFor(block, medium, recipient,
                                                      CertificateHash)]
    /\ UNCHANGED <<inner, lock, pc, ret, stored, generated, loads>>

\* No query has been made yet; the signer is not used.
InitBlock ==
    /\ call = NoCall
    /\ inner = InMemSignerInnerNew(None)
    /\ lock = LockNew
    /\ pc = [t \in Threads |-> "idle"]
    /\ ret = NoReturn
    /\ stored = None
    /\ generated = <<>>
    /\ loads = 0

NextBlock ==
    \/ MessageIdForOperationCall
    \/ MessageByIdCall
    \/ MessageBundlesForCall
    \/ HasOnlyRejectedMessagesCall
    \/ RequiredBlobIdsCall
    \/ RequiresBlobCall
    \/ BlockNewCall
    \/ DeserializeBlockCall

SpecBlock == InitBlock /\ [][NextBlock]_vars

(***************************************************************************)
(* The claims about the message indices of a block.                        *)
(***************************************************************************)
\* The operation exists in the block and has a message at message_index.
OperationHasMessage(block, operation_index, message_index) ==
    /\ operation_index < Len(block.body.operations)
    /\ message_index <
           Len(block.body.messages[Len(block.body.incoming_bundles)
                                       + operation_index + 1])

\* C11: for an operation of the block that has a message at message_index,
\* message_id_for_operation returns an id, and message_by_id of that id
\* returns the message at that place of the operation's transaction;
\* otherwise message_id_for_operation returns None.  message_by_id returns
\* None for every id whose index is not below the number of messages of the
\* block.
IndexRoundTrip ==
    /\ call.name = "message_id_for_operation" =>
        IF OperationHasMessage(call.block, call.operation_index,
                               call.message_index)
        THEN /\ IsSome(call.result)
             /\ MessageById(call.block, Unwrap(call.result)) =
                    Some(call.block.body.messages
                            [Len(call.block.body.incoming_bundles)
                                 + call.operation_index + 1]
                            [call.message_index + 1])
        ELSE call.result = None
    /\ call.name = "message_by_id" =>
        (call.message_id.index >= TotalMessages(call.block) =>
            call.result = None)

\* An id of a message of a later operation, behind bundles with messages.
IndexRoundTripTaken ==
    /\ call.name = "message_id_for_operation"
    /\ IsSome(call.result)
    /\ call.operation_index > 0
    /\ call.message_index > 0
    /\ Len(call.block.body.incoming_bundles) > 0
    /\ Len(call.block.body.messages[1]) > 0

\* The places of the messages of the first n transactions.
PlacesBefore(messages, n) ==
    {place \in (1..n) \X (1..MaxMsgs) : place[2] <= Len(messages[place[1]])}

\* C12: for an operation of the block that has a message at message_index,
\* message_id_for_operation returns the id of the chain and the height of
\* the block whose index is the number of messages of all the transactions
\* before the operation's (the incoming bundles included) plus
\* message_index; it returns None when the transaction is missing, when
\* message_index is out of range, or when the index arithmetic overflows.
OperationMessageId ==
    call.name = "message_id_for_operation" =>
        IF OperationHasMessage(call.block, call.operation_index,
                               call.message_index)
        THEN call.result =
                Some([chain_id |-> call.block.header.chain_id,
                      height |-> call.block.header.height,
                      index |->
                          Cardinality(PlacesBefore(call.block.body.messages,
                              Len(call.block.body.incoming_bundles)
                                  + call.operation_index))
                          + call.message_index])
        ELSE call.result = None

\* An id whose index counts messages of bundles and of earlier operations.
OperationMessageIdCounted ==
    /\ call.name = "message_id_for_operation"
    /\ IsSome(call.result)
    /\ call.operation_index > 0
    /\ Len(call.block.body.incoming_bundles) > 0
    /\ Unwrap(call.result).index > call.message_index + 1

\* The index arithmetic overflows and no id is returned.
OperationIndexOverflows ==
    /\ call.name = "message_id_for_operation"
    /\ call.operation_index = UsizeMax
    /\ Len(call.block.body.incoming_bundles) > 0
    /\ call.result = None

(***************************************************************************)
(* The claims about the bundles of outgoing messages.                      *)
(***************************************************************************)
\* The messages of one transaction that have the destination asked for.
Matching(txn_messages, medium, recipient) ==
    SelectSeq(txn_messages, LAMBDA message : HasDestination(message, medium, recipient))

\* The posted messages of all the bundles, as (bundle, place) pairs.
PostedPlaces(bundles) ==
    {place \in (1..Len(bundles)) \X (1..MaxMsgs) :
        place[2] <= Len(bundles[place[1]][2].messages)}

\* C13: message_bundles_for yields one bundle for each transaction that has
\* an outgoing message with the destination and none for the others; a
\* bundle carries the index of its transaction and exactly the matching
\* messages of that transaction in their order; the bundles come in
\* increasing transaction order, and no outgoing message is posted twice.
BundlePerMatchingTransaction ==
    call.name = "message_bundles_for" =>
        LET messages == call.block.body.messages
            bundles == call.result
            matching(t) == Matching(messages[t + 1], call.medium, call.recipient)
        IN  /\ {bundles[k][2].transaction_index : k \in 1..Len(bundles)} =
                   {t \in 0..(Len(messages) - 1) : matching(t) # <<>>}
            /\ \A k \in 1..Len(bundles) :
                LET bundle == bundles[k][2]
                    found == matching(bundle.transaction_index)
                IN  /\ Len(bundle.messages) = Len(found)
                    /\ \A j \in 1..Len(found) :
                          bundle.messages[j].message = found[j].message
            /\ \A k \in 1..(Len(bundles) - 1) :
                bundles[k][2].transaction_index < bundles[k + 1][2].transaction_index
            /\ \A p, q \in PostedPlaces(bundles) :
                p # q => bundles[p[1]][2].messages[p[2]].message
                             # bundles[q[1]][2].messages[q[2]].message

\* Two bundles, and between their transactions one whose message has
\* another destination and that gets no bundle.
BundlesOfTwoTransactions ==
    /\ call.name = "message_bundles_for"
    /\ Len(call.result) = 2
    /\ call.result[1][2].transaction_index = 0
    /\ call.result[2][2].transaction_index = 2
    /\ Len(call.block.body.messages[2]) > 0

\* C17: the index of every posted message of every bundle of
\* message_bundles_for is the number of outgoing messages before that
\* message in the block, those of the other destinations included, and
\* message_by_id of the header's id of that index returns that message.
PostedIndexAgrees ==
    call.name = "message_bundles_for" =>
        \A p \in PostedPlaces(call.result) :
            LET posted == call.result[p[1]][2].messages[p[2]]
                at == posted.message
                outgoing == call.block.body.messages[at[1]][at[2]]
            IN  /\ posted.index =
                       Cardinality(PlacesBefore(call.block.body.messages, at[1] - 1))
                           + at[2] - 1
                /\ MessageById(call.block,
                               HeaderMessageId(call.block.header, posted.index))
                       = Some(outgoing)

\* A posted message behind messages of another destination, in its own
\* transaction and in an earlier one.
PostedBehindOthers ==
    /\ call.name = "message_bundles_for"
    /\ Len(call.result) = 1
    /\ call.result[1][2].transaction_index = 1
    /\ Len(call.block.body.messages[1]) > 0
    /\ call.result[1][2].messages[1].index > Len(call.block.body.messages[1])

(***************************************************************************)
(* The claims about rejected bundles and required blobs.                   *)
(***************************************************************************)
\* C14: has_only_rejected_messages is true exactly when the block has no
\* operation and no incoming bundle whose action is not Reject, which
\* includes the block with no transaction at all.
OnlyRejectedIffNoOtherWork ==
    call.name = "has_only_rejected_messages" =>
        (call.result <=>
            /\ Len(call.block.body.operations) = 0
            /\ {i \in 1..Len(call.block.body.incoming_bundles) :
                   call.block.body.incoming_bundles[i].action # "Reject"} = {})

\* Rejected bundles alone, followed by an operation: the answer is false.
RejectedBundlesWithOperation ==
    /\ call.name = "has_only_rejected_messages"
    /\ Len(call.block.body.incoming_bundles) > 1
    /\ \A i \in DOMAIN call.block.body.incoming_bundles :
          call.block.body.incoming_bundles[i].action = "Reject"
    /\ Len(call.block.body.operations) > 0
    /\ ~call.result

\* The block with neither bundle nor operation: the answer is true.
EmptyBlockIsOnlyRejected ==
    /\ call.name = "has_only_rejected_messages"
    /\ call.block.body.incoming_bundles = <<>>
    /\ call.block.body.operations = <<>>
    /\ call.result

\* The blob id is named by an OracleResponse::Blob of the block.
InOracleResponses(block, blob_id) ==
    \E i \in DOMAIN block.body.oracle_responses :
        \E j \in DOMAIN block.body.oracle_responses[i] :
            block.body.oracle_responses[i][j] = OracleBlob(blob_id)

\* The blob id is published by an operation of the block.
InPublished(block, blob_id) ==
    \E k \in DOMAIN block.body.operations :
        LET operation == block.body.operations[k]
        IN  \/ /\ operation.kind = "PublishDataBlob"
               /\ blob_id = BlobId(operation.hashes[1], "Data")
            \/ /\ operation.kind = "PublishBytecode"
               /\ \/ blob_id = BlobId(operation.hashes[1], "ContractBytecode")
                  \/ blob_id = BlobId(operation.hashes[2], "ServiceBytecode")

\* C15: required_blob_ids is the set of the blob ids of the
\* OracleResponse::Blob responses and of the blob ids published by the
\* operations (the Data blob of a PublishDataBlob, the ContractBytecode and
\* the ServiceBytecode blob of a PublishBytecode), and requires_blob of a
\* blob id is true exactly when the id is in required_blob_ids.
RequiredBlobsAreOracleAndPublished ==
    /\ call.name = "required_blob_ids" =>
        call.result = {blob_id \in BlobIds :
                          \/ InOracleResponses(call.block, blob_id)
                          \/ InPublished(call.block, blob_id)}
    /\ call.name = "requires_blob" =>
        (call.result <=> call.blob_id \in RequiredBlobIds(call.block))

\* The blobs of an oracle response, of a data blob and of a bytecode.
RequiredBlobsOfEveryKind ==
    /\ call.name = "required_blob_ids"
    /\ Cardinality(call.result) = 4
    /\ Cardinality(OracleBlobIds(call.block.body)) = 1
    /\ OracleBlobIds(call.block.body) \cap PublishedBlobIds(call.block) = {}

\* A published blob that no oracle response names is required.
PublishedBlobIsRequired ==
    /\ call.name = "requires_blob"
    /\ call.result
    /\ call.blob_id.blob_type = "ServiceBytecode"
    /\ call.blob_id \notin OracleBlobIds(call.block.body)

(***************************************************************************)
(* The claim about the hashes of the header.                               *)
(***************************************************************************)
\* C16: in every block that is built or read, each of bundles_hash,
\* operations_hash, messages_hash, oracle_responses_hash and events_hash
\* of the header is the canonical hash of its section of the body.
CommitmentInvariant ==
    call.name \in {"block_new", "deserialize_block"} =>
        LET header == call.result.header
            body == call.result.body
        IN  /\ header.bundles_hash =
                   SectionHash("IncomingBundles", body.incoming_bundles)
            /\ header.operations_hash = SectionHash("Operations", body.operations)
            /\ header.messages_hash = SectionHash("Messages", body.messages)
            /\ header.oracle_responses_hash =
                   SectionHash("OracleResponses", body.oracle_responses)
            /\ header.events_hash = SectionHash("Events", body.events)

(***************************************************************************)
(* The claim about the lookups of the signer.                              *)
(***************************************************************************)
\* C18: in every state of the keyring, which all the clones of the signer
\* share, contains_key of an owner is true exactly when get_public of it
\* returns a key and exactly when sign by it returns a signature, for every
\* owner and digest; and right after generate_new has returned a public
\* key, contains_key of its owner is true and get_public of its owner
\* returns that key.
LookupsAgree ==
    /\ \A owner \in ProbeOwners, value \in SignDigests :
        /\ ContainsKey(inner, owner) <=> IsSome(GetPublic(inner, owner))
        /\ IsSome(GetPublic(inner, owner)) <=> IsSome(Sign(inner, owner, value))
    /\ ret.op = "generate_new" =>
        /\ ContainsKey(inner, OwnerFrom(ret.result))
        /\ GetPublic(inner, OwnerFrom(ret.result)) = Some(ret.result)

\* The second key has just been generated, and some owner is still unknown.
SecondKeyLookedUp ==
    /\ ret.op = "generate_new"
    /\ Cardinality(DOMAIN inner.keys) >= 2
    /\ \E owner \in ProbeOwners : ~ContainsKey(inner, owner)

====
